---- MODULE Spec2Model ----
(***************************************************************************)
(* Video-Depth-Anything-GUI: the batch worker (process_videos_threaded),   *)
(* its update queue, and the Tk front end that starts, stops and polls it. *)
(*                                                                         *)
(* The worker thread and the GUI thread interleave; the only things they   *)
(* share are update_queue (worker puts, GUI gets), stop_event (GUI sets    *)
(* and clears, worker reads at the top of each loop iteration) and the     *)
(* file system.  A worker step is one statement group of the source        *)
(* between two points where the other thread can be observed.              *)
(***************************************************************************)
EXTENDS Integers, Sequences, FiniteSets, TLC

(* ---------------------------------------------------------------- bounds *)

\* Largest number of video files one batch resolves to.
MaxFiles == 2

(* ------------------------------------------------------------- constants *)

\* The output artifacts of one file, in the order the source writes them.
Artifacts == <<"src", "vis", "npz", "exr", "png">>

ArtifactSet == {Artifacts[n] : n \in 1..Len(Artifacts)}

\* The two steps of the relocation into the 'finished' subdirectory.
RelocationSteps == <<"mkfinished", "move">>

AllSteps == ArtifactSet \cup {"mkfinished", "move"}

\* What the input path is on disk when Process is pressed.
PathKinds == {"file", "dir", "missing"}

\* The job configuration handed to the worker (the 'values' dictionary),
\* restricted to the entries that decide control flow.
Values ==
    [path : PathKinds,
     create_src : BOOLEAN, save_npz : BOOLEAN, save_exr : BOOLEAN,
     save_png : BOOLEAN, resume : BOOLEAN]

NoValues ==
    [path |-> "missing", create_src |-> FALSE, save_npz |-> FALSE,
     save_exr |-> FALSE, save_png |-> FALSE, resume |-> FALSE]

(* -------------------------------------------------------------- messages *)

\* A (key, value) pair of the update queue.  text carries the string part
\* of the value, num its number: the bound of -SET_MAX-, the count of
\* -PROGRESS_UPDATE-, and the 1-based file a status or error text names.
Msg(key, text, num) == [key |-> key, text |-> text, num |-> num]

VARIABLES
    gui,            \* widget state of the front end
    app,            \* "running", "closing" (on_closing waits in join), "destroyed"
    stop_event,     \* threading.Event shared with the worker
    update_queue,   \* Queue of messages, worker -> GUI
    pc,             \* position of the worker thread
    values,         \* the worker's job configuration
    i,              \* loop index of the worker (0-based, as enumerate)
    total_files,    \* len(files_to_process)
    engine,         \* "none", "loaded", "released"
    files,          \* per file: what was done to it and where it is
    emitted,        \* history: every message the worker put, in order
    observed,       \* history: every message check_queue took, in order
    log,            \* history: reads, inferences and engine loads of the run
    stopAt,         \* history: where the worker was when Stop was pressed
    call,           \* the inputs of the operation under study (disk, arguments)
    ret             \* what that operation produced

vars == <<gui, app, stop_event, update_queue, pc, values, i, total_files,
          engine, files, emitted, observed, log, stopAt, call, ret>>

\* Where the worker is, as far as cancellation can tell: settling its
\* inputs and loading the model ("setup"), at the top of the loop between
\* two files ("boundary"), inside the processing of a file ("file"), past
\* the loop ("end"), or gone ("over").
Phase(p) ==
    CASE p \in {"resolve", "load"} -> "setup"
      [] p = "loop" -> "boundary"
      [] p \in {"read", "stack", "infer", "outdir", "save", "progress"} -> "file"
      [] p \in {"cleanup", "done"} -> "end"
      [] OTHER -> "over"

NoStop == [phase |-> "none", i |-> 0, files |-> <<>>]

NewFile ==
    [attempted |-> {}, written |-> {}, failed |-> "none", location |-> "pending"]

NewLog == [reads |-> <<>>, infers |-> <<>>, loads |-> 0]

\* threading.Thread.is_alive(): the thread function has not returned or died.
ThreadAlive == pc \notin {"idle", "returned", "stopped", "completed", "crashed"}


(* ------------------------------------------------------- the update queue *)

\* A put on a LIFO queue.
PutFront(q, m) == <<m>> \o q

\* write_event_value: self.update_queue.put((key, value)) on a FIFO Queue.
Put(q, m) == Append(q, m)

\* The worker puts the messages ms, in order, and they enter the history.
Emit(ms) ==
    LET RECURSIVE PutAll(_, _)
        PutAll(q, rest) ==
            IF rest = <<>> THEN q ELSE PutAll(Put(q, Head(rest)), Tail(rest))
    IN  /\ update_queue' = PutAll(update_queue, ms)
        /\ emitted' = emitted \o ms

(* ----------------------------------------------------------- the front end *)

\* ttk.Progressbar is created without a maximum: Tk's default.
DefaultMaximum == 100

InitGui ==
    [btn_start |-> "normal", btn_stop |-> "disabled", widgets |-> "normal",
     status |-> "Idle", bar_value |-> 0, bar_max |-> DefaultMaximum,
     processing_thread |-> FALSE]

\* on_thread_done(message)
on_thread_done(g, message) ==
    [g EXCEPT !.btn_start = "normal", !.btn_stop = "disabled",
              !.widgets = "normal", !.status = message,
              !.bar_value = g.bar_max, !.processing_thread = FALSE]

\* The body of check_queue's loop for one (key, value).
Handle(g, m) ==
    CASE m.key = "-SET_MAX-" -> [g EXCEPT !.bar_max = m.num, !.bar_value = 0]
      [] m.key = "-PROGRESS_UPDATE-" -> [g EXCEPT !.bar_value = m.num]
      [] m.key = "-STATUS_UPDATE-" -> [g EXCEPT !.status = m.text]
      [] m.key = "-ERROR-" -> g      \* messagebox.showerror: no widget changes
      [] m.key = "-THREAD_DONE-" -> on_thread_done(g, m.text)
      [] OTHER -> g

\* check_queue takes messages with get_nowait until the queue is Empty.
RECURSIVE Drain(_, _)
Drain(g, q) == IF q = <<>> THEN g ELSE Drain(Handle(g, Head(q)), Tail(q))

\* One poll that finds messages.  Messages the worker puts while the poll
\* runs are taken by it too, which is the same as their having been put
\* before it began: the poll changes nothing the worker reads.
check_queue ==
    /\ app = "running"
    /\ update_queue # <<>>
    /\ gui' = Drain(gui, update_queue)
    /\ observed' = observed \o update_queue
    /\ update_queue' = <<>>
    /\ UNCHANGED <<app, stop_event, pc, values, i, total_files, engine,
                   files, emitted, log, stopAt>>
    /\ UNCHANGED <<call, ret>>

\* A launch that leaves the stop flag as it finds it.
Kept(flag) == flag

\* stop_event.clear() (line 398), before the thread is started.
Cleared(flag) == FALSE

\* start_processing with a configuration that passes its validation: the
\* buttons flip, the stop flag is cleared and the worker thread starts.
\* The histories are those of the new run.
start_processing(v) ==
    /\ app = "running"
    /\ gui.btn_start = "normal"
    /\ gui' = [gui EXCEPT !.btn_start = "disabled", !.btn_stop = "normal",
                          !.widgets = "disabled", !.status = "Starting...",
                          !.processing_thread = TRUE]
    /\ stop_event' = Cleared(stop_event)
    /\ pc' = "resolve"
    /\ values' = v
    /\ i' = 0
    /\ total_files' = 0
    /\ engine' = "none"
    /\ files' = <<>>
    /\ emitted' = <<>>
    /\ observed' = <<>>
    /\ log' = NewLog
    /\ stopAt' = NoStop
    /\ UNCHANGED <<app, update_queue>>
    /\ UNCHANGED call

\* stop_processing: the Stop button.
stop_processing ==
    /\ app = "running"
    /\ gui.btn_stop = "normal"
    /\ stop_event' = TRUE
    /\ gui' = [gui EXCEPT !.btn_stop = "disabled",
                          !.status = "Stopping... please wait."]
    /\ stopAt' = IF stopAt = NoStop THEN [phase |-> Phase(pc), i |-> i, files |-> files] ELSE stopAt
    /\ UNCHANGED <<app, update_queue, pc, values, i, total_files, engine,
                   files, emitted, observed, log>>
    /\ UNCHANGED <<call, ret>>

\* on_closing (Exit button, window close): with a live worker it sets the
\* stop flag and waits in join(timeout=1); otherwise it saves the settings
\* and destroys the window at once.
on_closing ==
    /\ app = "running"
    /\ IF gui.processing_thread /\ ThreadAlive
       THEN /\ stop_event' = TRUE
            /\ app' = "closing"
            /\ stopAt' = IF stopAt = NoStop THEN [phase |-> Phase(pc), i |-> i, files |-> files] ELSE stopAt
       ELSE /\ app' = "destroyed"
            /\ UNCHANGED <<stop_event, stopAt>>
    /\ UNCHANGED <<gui, update_queue, pc, values, i, total_files, engine,
                   files, emitted, observed, log>>
    /\ UNCHANGED <<call, ret>>

\* The join returned or timed out: save_settings, destroy.  The main loop
\* ends and the daemon worker dies with the process.
destroy ==
    /\ app = "closing"
    /\ app' = "destroyed"
    /\ UNCHANGED <<gui, stop_event, update_queue, pc, values, i, total_files,
                   engine, files, emitted, observed, log, stopAt>>
    /\ UNCHANGED <<call, ret>>


(* ---------------------------------------------------------------- worker *)

\* The worker runs until the process exits.
Running == app # "destroyed"

FileNo == i + 1

\* Lines 492-550: settle the input path and list the files to process.
\* listed is the number of video files os.listdir finds in a folder.
ResolveInput(listed) ==
    /\ Running
    /\ pc = "resolve"
    /\ CASE values.path = "file" ->
              \* the single selected file
              /\ listed = 1
              /\ total_files' = 1
              /\ files' = [f \in 1..1 |-> NewFile]
              /\ pc' = "load"
              /\ UNCHANGED <<update_queue, emitted>>
         [] values.path = "missing" ->
              \* neither a file nor a directory
              /\ listed = 0
              /\ Emit(<<Msg("-ERROR-", "Input path must be a valid file or directory", 0)>>)
              /\ pc' = "returned"
              /\ UNCHANGED <<total_files, files>>
         [] values.path = "dir" /\ listed = 0 ->
              /\ Emit(<<Msg("-ERROR-", "No video files found in the input folder", 0)>>)
              /\ pc' = "returned"
              /\ UNCHANGED <<total_files, files>>
         [] values.path = "dir" /\ listed > 0 ->
              /\ total_files' = listed
              /\ files' = [f \in 1..listed |-> NewFile]
              /\ pc' = "load"
              /\ UNCHANGED <<update_queue, emitted>>
    /\ UNCHANGED <<gui, app, stop_event, values, i, engine, observed, log, stopAt>>
    /\ UNCHANGED call

LoadOutcomes == {"ok", "FileNotFoundError", "Exception"}

\* A failed load that still announces the number of files.
OnLoadErrorAnnounce(text, n) ==
    <<Msg("-ERROR-", text, 0), Msg("-SET_MAX-", "", n)>>

\* Lines 564-569: what the worker puts when the load fails, before it
\* returns.
OnLoadError(text, n) == <<Msg("-ERROR-", text, 0)>>

\* Lines 552-574: build the model and load its checkpoint, once, before
\* the loop; then announce the number of files.
LoadModel(outcome) ==
    /\ Running
    /\ pc = "load"
    /\ log' = [log EXCEPT !.loads = @ + 1]
    /\ CASE outcome = "ok" ->
              /\ engine' = "loaded"
              /\ Emit(<<Msg("-STATUS_UPDATE-", "Loading model...", 0),
                        Msg("-SET_MAX-", "", total_files)>>)
              /\ pc' = "loop"
         [] outcome = "FileNotFoundError" ->
              /\ Emit(<<Msg("-STATUS_UPDATE-", "Loading model...", 0)>>
                      \o OnLoadError("Checkpoint file not found", total_files))
              /\ pc' = "returned"
              /\ UNCHANGED engine
         [] outcome = "Exception" ->
              /\ Emit(<<Msg("-STATUS_UPDATE-", "Loading model...", 0)>>
                      \o OnLoadError("Error loading model", total_files))
              /\ pc' = "returned"
              /\ UNCHANGED engine
    /\ UNCHANGED <<gui, app, stop_event, values, i, total_files, files,
                   observed, stopAt>>
    /\ UNCHANGED <<call, ret>>

\* A loop that never looks at the stop flag.
StopRequestedNever(flag) == FALSE

\* stop_event.is_set() at the top of an iteration (line 576).
StopRequested(flag) == flag

\* Lines 575-579: the for statement takes the next file, or ends; with a
\* file in hand the stop flag is checked before anything is done to it.
LoopCheck ==
    /\ Running
    /\ pc = "loop"
    /\ IF i >= total_files
       THEN /\ pc' = "cleanup"
            /\ UNCHANGED <<update_queue, emitted>>
       ELSE IF StopRequested(stop_event)
       THEN /\ Emit(<<Msg("-THREAD_DONE-", "Stopped", 0)>>)
            /\ pc' = "stopped"
       ELSE /\ Emit(<<Msg("-STATUS_UPDATE-", "Processing file", FileNo)>>)
            /\ pc' = "read"
    /\ UNCHANGED <<gui, app, stop_event, values, i, total_files, engine,
                   files, observed, log, stopAt>>
    /\ UNCHANGED <<call, ret>>

\* An except clause that reports the error and forgets the progress update.
OnReadErrorNoProgress(n) == <<Msg("-ERROR-", "Error reading video frames", n)>>

\* Lines 584-587: what the except clause of the read sends before 'continue'.
OnReadError(n) ==
    <<Msg("-ERROR-", "Error reading video frames", n),
      Msg("-PROGRESS_UPDATE-", "", n)>>

\* Lines 581-587: read_video_frames inside try/except.
ReadFrames(ok) ==
    /\ Running
    /\ pc = "read"
    /\ log' = [log EXCEPT !.reads = Append(@, FileNo)]
    /\ IF ok
       THEN /\ pc' = "stack"
            /\ UNCHANGED <<i, update_queue, emitted, files>>
       ELSE /\ Emit(OnReadError(FileNo))
            /\ files' = [files EXCEPT ![FileNo].failed = "read"]
            /\ i' = i + 1
            /\ pc' = "loop"
    /\ UNCHANGED <<gui, app, stop_event, values, total_files, engine,
                   observed, stopAt>>
    /\ UNCHANGED <<call, ret>>

\* Line 590: np.stack(frames), outside every try.  It raises on an empty
\* or ragged frame list, and the exception ends the thread.
StackFrames(ok) ==
    /\ Running
    /\ pc = "stack"
    /\ IF ok
       THEN /\ pc' = "infer"
            /\ UNCHANGED files
       ELSE /\ pc' = "crashed"
            /\ files' = [files EXCEPT ![FileNo].failed = "stack"]
    /\ UNCHANGED <<gui, app, stop_event, update_queue, values, i, total_files,
                   engine, emitted, observed, log, stopAt>>
    /\ UNCHANGED <<call, ret>>

\* Lines 592-618: infer_video_depth (twice under TTA) inside try/except.
InferDepth(ok) ==
    /\ Running
    /\ pc = "infer"
    /\ log' = [log EXCEPT !.infers = Append(@, FileNo)]
    /\ IF ok
       THEN /\ pc' = "outdir"
            /\ UNCHANGED <<i, update_queue, emitted, files>>
       ELSE /\ Emit(<<Msg("-ERROR-", "Error during depth inference", FileNo),
                      Msg("-PROGRESS_UPDATE-", "", FileNo)>>)
            /\ files' = [files EXCEPT ![FileNo].failed = "infer"]
            /\ i' = i + 1
            /\ pc' = "loop"
    /\ UNCHANGED <<gui, app, stop_event, values, total_files, engine,
                   observed, stopAt>>
    /\ UNCHANGED <<call, ret>>

\* Lines 620-624: os.makedirs(output_dir) when it does not exist, outside
\* every try: an OSError ends the thread.
MakeOutputDir(ok) ==
    /\ Running
    /\ pc = "outdir"
    /\ IF ok
       THEN /\ pc' = "save"
            /\ UNCHANGED files
       ELSE /\ pc' = "crashed"
            /\ files' = [files EXCEPT ![FileNo].failed = "outdir"]
    /\ UNCHANGED <<gui, app, stop_event, update_queue, values, i, total_files,
                   engine, emitted, observed, log, stopAt>>
    /\ UNCHANGED <<call, ret>>


\* Whether the configuration asks for a step of the save block.
StepEnabled(v, step) ==
    CASE step = "src" -> v.create_src
      [] step = "vis" -> TRUE
      [] step = "npz" -> v.save_npz
      [] step = "exr" -> v.save_exr
      [] step = "png" -> v.save_png
      [] step \in {"mkfinished", "move"} -> v.resume

\* The steps of the save block (lines 626-691) for a configuration, in
\* source order.
SavePlan(v) ==
    SelectSeq(Artifacts \o RelocationSteps, LAMBDA step : StepEnabled(v, step))

PlanSteps(v) == {step \in AllSteps : StepEnabled(v, step)}

\* A save block whose every step has a try/except of its own.
OnStepFailureContinue(step) == "continue"

\* Where an exception raised by a step of the save block is caught: the
\* move has its own try/except (lines 688-691) and the block goes on;
\* everything else falls to the block's except (lines 693-694).
OnStepFailure(step) == IF step = "move" THEN "continue" ELSE "abort"

\* The message text of the except clause that catches a failing step.
ErrorText(step) ==
    IF step = "move" THEN "Failed to move to finished folder"
    ELSE "Error saving outputs"

\* Run the steps of plan in order; the steps in fails raise when reached.
\* acc collects the steps attempted, those completed, the first failing
\* step and the error texts sent.
RECURSIVE RunSteps(_, _, _)
RunSteps(plan, fails, acc) ==
    IF plan = <<>> THEN acc
    ELSE LET step == Head(plan)
             tried == [acc EXCEPT !.attempted = @ \cup {step}]
         IN  IF step \in fails
             THEN LET caught ==
                          [tried EXCEPT !.errors = Append(@, ErrorText(step)),
                                        !.failed = IF @ = "none" THEN step ELSE @]
                  IN  IF OnStepFailure(step) = "continue"
                      THEN RunSteps(Tail(plan), fails, caught)
                      ELSE caught
             ELSE RunSteps(Tail(plan), fails,
                           [tried EXCEPT !.completed = @ \cup {step}])

SaveResult(v, fails) ==
    RunSteps(SavePlan(v), fails,
             [attempted |-> {}, completed |-> {}, failed |-> "none",
              errors |-> <<>>])

\* Lines 626-694: write the configured outputs and, under resume, move the
\* source file to 'finished'.  fails is the set of steps that raise if they
\* are reached.
SaveOutputs(fails) ==
    /\ Running
    /\ pc = "save"
    /\ LET r == SaveResult(values, fails)
       IN  /\ files' = [files EXCEPT
                  ![FileNo].attempted = r.attempted,
                  ![FileNo].written = r.completed \cap ArtifactSet,
                  ![FileNo].failed = r.failed,
                  ![FileNo].location =
                      IF "move" \in r.completed THEN "finished" ELSE "pending"]
           /\ Emit([n \in 1..Len(r.errors) |-> Msg("-ERROR-", r.errors[n], FileNo)])
    /\ pc' = "progress"
    /\ UNCHANGED <<gui, app, stop_event, values, i, total_files, engine,
                   observed, log, stopAt>>
    /\ UNCHANGED <<call, ret>>

\* Line 696: the progress update that ends an iteration.
ProgressUpdate ==
    /\ Running
    /\ pc = "progress"
    /\ Emit(<<Msg("-PROGRESS_UPDATE-", "", FileNo)>>)
    /\ i' = i + 1
    /\ pc' = "loop"
    /\ UNCHANGED <<gui, app, stop_event, values, total_files, engine, files,
                   observed, log, stopAt>>
    /\ UNCHANGED <<call, ret>>

\* A cleanup that leaves the model in place.
ReleaseSkipped(e) == e

\* Lines 700-706: del video_depth_anything, empty_cache, gc.collect.
Release(e) == "released"

\* Lines 698-708: the cleanup after the loop; its own failures are logged.
Cleanup ==
    /\ Running
    /\ pc = "cleanup"
    /\ engine' = Release(engine)
    /\ pc' = "done"
    /\ UNCHANGED <<gui, app, stop_event, update_queue, values, i, total_files,
                   files, emitted, observed, log, stopAt>>
    /\ UNCHANGED <<call, ret>>

\* Line 710: the last statement of the thread function.
Completed ==
    /\ Running
    /\ pc = "done"
    /\ Emit(<<Msg("-THREAD_DONE-", "Completed", 0)>>)
    /\ pc' = "completed"
    /\ UNCHANGED <<gui, app, stop_event, values, i, total_files, engine,
                   files, observed, log, stopAt>>
    /\ UNCHANGED <<call, ret>>

(* --------------------------------------------------------- specification *)

\* The program after construction: idle front end, no worker.
Idle ==
    /\ gui = InitGui
    /\ app = "running"
    /\ stop_event = FALSE
    /\ update_queue = <<>>
    /\ pc = "idle"
    /\ values = NoValues
    /\ i = 0
    /\ total_files = 0
    /\ engine = "none"
    /\ files = <<>>
    /\ emitted = <<>>
    /\ observed = <<>>
    /\ log = NewLog
    /\ stopAt = NoStop

Init ==
    /\ Idle
    /\ call = <<>>
    /\ ret = <<>>

\* The steps of the worker thread once its input is settled.
Batch ==
    \/ \E outcome \in LoadOutcomes : LoadModel(outcome)
    \/ LoopCheck
    \/ \E ok \in BOOLEAN : ReadFrames(ok)
    \/ \E ok \in BOOLEAN : StackFrames(ok)
    \/ \E ok \in BOOLEAN : InferDepth(ok)
    \/ \E ok \in BOOLEAN : MakeOutputDir(ok)
    \/ \E fails \in SUBSET PlanSteps(values) : SaveOutputs(fails)
    \/ ProgressUpdate
    \/ Cleanup
    \/ Completed

\* The steps of the worker thread.
Worker ==
    \/ \E listed \in 0..MaxFiles : ResolveInput(listed) /\ UNCHANGED ret
    \/ Batch

\* One batch from Process to the end of its worker, under every job
\* configuration, with Stop pressed at any moment.  The front end does not
\* poll here: polling changes nothing the worker reads, and without it no
\* second batch starts.
Next ==
    \/ \E v \in Values : start_processing(v) /\ UNCHANGED ret
    \/ stop_processing
    \/ Worker

Spec == Init /\ [][Next]_vars

\* The configurations of the whole-application specification: every kind
\* of input path, resume on and off, the optional artifacts off.
FrontEndValues ==
    {v \in Values : ~v.create_src /\ ~v.save_npz /\ ~v.save_exr /\ ~v.save_png}

\* The whole application: batches one after another, polling, Stop, Exit.
NextFrontEnd ==
    \/ \E v \in FrontEndValues : start_processing(v) /\ UNCHANGED ret
    \/ stop_processing
    \/ check_queue
    \/ on_closing
    \/ destroy
    \/ Worker

SpecFrontEnd == Init /\ [][NextFrontEnd]_vars


(* ------------------------------------------------- one batch after another *)

\* Process pressed: ret keeps what the stop flag was at that moment, that
\* is, whether a cancellation of an earlier batch was still standing.
press_again(v) ==
    /\ start_processing(v)
    /\ ret' = [earlier_stop |-> stop_event]

InitRuns ==
    /\ Idle
    /\ call = <<>>
    /\ ret = [earlier_stop |-> FALSE]

NextRuns ==
    \/ \E v \in FrontEndValues : press_again(v)
    \/ stop_processing
    \/ check_queue
    \/ Worker

\* Batches one after another with Process, Stop, polling and the worker.
SpecRuns == InitRuns /\ [][NextRuns]_vars


(* ------------------------------------------------------- the input form *)

\* A text of an entry field, as the sequence of its characters.
DigitChars == <<"0", "1", "2", "3", "4", "5", "6", "7", "8", "9">>

IsDigit(c) == \E n \in 1..Len(DigitChars) : DigitChars[n] = c

DigitValue(c) == (CHOOSE n \in 1..Len(DigitChars) : DigitChars[n] = c) - 1

\* The text without a leading sign.
Unsigned(t) == IF t # <<>> /\ Head(t) \in {"+", "-"} THEN Tail(t) ELSE t

\* int(text) does not raise ValueError: an optional sign and decimal digits.
IsInt(t) ==
    /\ Unsigned(t) # <<>>
    /\ \A n \in 1..Len(Unsigned(t)) : IsDigit(Unsigned(t)[n])

RECURSIVE DigitsValue(_)
DigitsValue(t) ==
    IF t = <<>> THEN 0
    ELSE DigitsValue(SubSeq(t, 1, Len(t) - 1)) * Len(DigitChars) + DigitValue(t[Len(t)])

\* int(text) for a text it accepts.
IntOf(t) ==
    IF t # <<>> /\ Head(t) = "-" THEN 0 - DigitsValue(Unsigned(t))
    ELSE DigitsValue(Unsigned(t))

\* Texts typed into Input Size and Max Resolution.
SizeTexts ==
    {<<>>, <<"0">>, <<"-", "5">>, <<"5", "1", "8">>, <<"a">>, <<"5", ".", "0">>}

\* What the user has entered when Process is pressed: the two sizes, the
\* input path (empty, or what it is on disk) and the output directory.
Forms ==
    [input_size : SizeTexts, max_res : SizeTexts,
     input_path : {""} \cup PathKinds, output_dir : {"", "out"}]

\* Lines 375-391: the text of the error box start_processing shows, or ""
\* when the form passes.
Validate(form) ==
    IF ~(IsInt(form.input_size) /\ IsInt(form.max_res))
    THEN "Please enter valid integers for Input Size and Max Resolution"
    ELSE IF form.input_path = "" THEN "Please select an input file or folder"
    ELSE IF form.output_dir = "" THEN "Please select an output directory"
    ELSE ""

\* Lines 403-426: the values handed to the thread (optional outputs off).
FormValues(form) ==
    [path |-> form.input_path, create_src |-> FALSE, save_npz |-> FALSE,
     save_exr |-> FALSE, save_png |-> FALSE, resume |-> FALSE,
     input_size |-> form.input_size, max_res |-> form.max_res,
     output_dir |-> form.output_dir]

\* start_processing as the Process button runs it: validate, then launch.
press_process(form) ==
    /\ app = "running"
    /\ gui.btn_start = "normal"
    /\ IF Validate(form) # ""
       THEN /\ ret' = [dialog |-> Validate(form)]
            /\ UNCHANGED <<gui, app, stop_event, update_queue, pc, values, i,
                           total_files, engine, files, emitted, observed, log,
                           stopAt, call>>
       ELSE start_processing(FormValues(form)) /\ UNCHANGED ret

NextForm ==
    \/ \E form \in Forms : press_process(form)
    \/ Worker

\* Process pressed with any form, and the worker it launches.
SpecForm == Init /\ [][NextForm]_vars

(* ---------------------------------------------------- the input folder *)

\* Largest number of entries of the input folder.
MaxEntries == 2

UpperChars ==
    <<"A", "B", "C", "D", "E", "F", "G", "H", "I", "J", "K", "L", "M",
      "N", "O", "P", "Q", "R", "S", "T", "U", "V", "W", "X", "Y", "Z">>

LowerChars ==
    <<"a", "b", "c", "d", "e", "f", "g", "h", "i", "j", "k", "l", "m",
      "n", "o", "p", "q", "r", "s", "t", "u", "v", "w", "x", "y", "z">>

\* A comparison that keeps the case of the name.
LowerKeepCase(c) == c

\* str.lower() on one character.
Lower(c) ==
    IF \E n \in 1..Len(UpperChars) : UpperChars[n] = c
    THEN LowerChars[CHOOSE n \in 1..Len(UpperChars) : UpperChars[n] = c]
    ELSE c

LowerText(t) == [n \in 1..Len(t) |-> Lower(t[n])]

\* str.endswith(suffix)
EndsWith(t, suffix) ==
    /\ Len(t) >= Len(suffix)
    /\ SubSeq(t, Len(t) - Len(suffix) + 1, Len(t)) = suffix

\* Line 538.
video_extensions ==
    {<<".", "m", "p", "4">>, <<".", "a", "v", "i">>,
     <<".", "m", "o", "v">>, <<".", "m", "k", "v">>}

\* f.lower().endswith(tuple(video_extensions))
IsVideoName(name) == \E ext \in video_extensions : EndsWith(LowerText(name), ext)

\* Lines 539-542: the entries of the folder that are regular files with a
\* video name.
VideoFiles(entries) == {e \in entries : e.isfile /\ IsVideoName(e.name)}

Entry(name, isfile) == [name |-> name, isfile |-> isfile]

\* What a folder may hold: video files in either case, other files, a
\* directory with a video name, names that only contain an extension.
ClipLower == Entry(<<"a", ".", "m", "p", "4">>, TRUE)
ClipUpper == Entry(<<"B", ".", "M", "P", "4">>, TRUE)
ClipMixed == Entry(<<"c", ".", "A", "v", "i">>, TRUE)
ClipMov == Entry(<<"d", ".", "m", "o", "v">>, TRUE)
ClipMkv == Entry(<<"e", ".", "M", "K", "V">>, TRUE)
TextFile == Entry(<<"f", ".", "t", "x", "t">>, TRUE)
VideoNamedDir == Entry(<<"g", ".", "m", "p", "4">>, FALSE)
NoDotFile == Entry(<<"m", "p", "4">>, TRUE)
BackupFile == Entry(<<"h", ".", "m", "p", "4", ".", "b", "a", "k">>, TRUE)

FolderEntries ==
    {ClipLower, ClipUpper, ClipMixed, ClipMov, ClipMkv, TextFile,
     VideoNamedDir, NoDotFile, BackupFile}

Folders == {d \in SUBSET FolderEntries : Cardinality(d) <= MaxEntries}

\* The file picked with the File button: any file, whatever its name.
SelectedFile == TextFile

\* Lines 534-550 with the folder on disk: the files to process.
FilesToProcess(v, entries) ==
    CASE v.path = "file" -> {SelectedFile}
      [] v.path = "dir" -> VideoFiles(entries)
      [] OTHER -> {}

\* ResolveInput on the folder held in call.
ResolveListed ==
    /\ pc = "resolve"
    /\ ret' = FilesToProcess(values, call)
    /\ ResolveInput(Cardinality(FilesToProcess(values, call)))

ListingValues == {v \in FrontEndValues : ~v.resume}

InitListing ==
    /\ Idle
    /\ call \in Folders
    /\ ret = {}

NextListing ==
    \/ \E v \in ListingValues : start_processing(v) /\ UNCHANGED ret
    \/ ResolveListed
    \/ Batch

\* One batch over every input folder of at most MaxEntries entries.
SpecListing == InitListing /\ [][NextListing]_vars

(* ------------------------------------------------------ the video encoder *)

\* Lines 20-25: codec, profile, pixel format, 10-bit flag.
codec_map ==
    [m \in {"libx264 (8-bit)", "libx265 (10-bit)",
            "nvenc_h264 (8-bit)", "nvenc_h265 (10-bit)"} |->
        CASE m = "libx264 (8-bit)" -> <<"libx264", "high", "yuv420p", FALSE>>
          [] m = "libx265 (10-bit)" -> <<"libx265", "main10", "yuv420p10le", TRUE>>
          [] m = "nvenc_h264 (8-bit)" -> <<"h264_nvenc", "high", "yuv420p", FALSE>>
          [] m = "nvenc_h265 (10-bit)" -> <<"hevc_nvenc", "main10", "yuv420p10le", TRUE>>]

\* The keys a caller may pass: the four of the table, and others.
CodecModes ==
    DOMAIN codec_map \cup {"", "libx264", "libx265 (8-bit)", "LIBX264 (8-BIT)"}

\* How subprocess.run ends: normally, or with an exception.
EncoderOutcomes ==
    {"ok", "CalledProcessError", "FileNotFoundError", "PermissionError",
     "UnicodeDecodeError"}

EncoderCalls ==
    [codec_mode : CodecModes, crf : {0, 23}, invert_vis : BOOLEAN,
     outcome : EncoderOutcomes]

\* A tag that ignores the bit depth.
ContainerTagAvc(is_10bit) == "avc1"

\* Line 64.
ContainerTag(is_10bit) == IF is_10bit THEN "hvc1" ELSE "avc1"

\* Lines 36-69: the command line, option by option.
Command(c) ==
    LET sel == codec_map[c.codec_mode]
    IN  [program |-> "ffmpeg",
         i       |-> "frame_%05d.png",
         r       |-> "fps",
         vf      |-> IF c.invert_vis THEN "format=gray, lut=curve=opposit"
                                     ELSE "format=gray",
         vcodec  |-> sel[1],
         pix_fmt |-> sel[3],
         crf     |-> c.crf,
         profile |-> sel[2],
         tag     |-> ContainerTag(sel[4]),
         output  |-> "output_path"]

\* Lines 85, 92, 94: the except clauses of the try around subprocess.run,
\* in order.
ExceptClauses == <<"CalledProcessError", "FileNotFoundError", "Exception">>

\* Every exception subprocess.run raises is an Exception.
IsInstance(raised, clause) == clause = raised \/ clause = "Exception"

\* The first clause that takes the exception, or 0.
Handler(raised) ==
    IF \E n \in 1..Len(ExceptClauses) : IsInstance(raised, ExceptClauses[n])
    THEN CHOOSE n \in 1..Len(ExceptClauses) :
             /\ IsInstance(raised, ExceptClauses[n])
             /\ \A k \in 1..(n - 1) : ~IsInstance(raised, ExceptClauses[k])
    ELSE 0

\* A helper that says nothing when the executable is missing.
ReportQuietly(outcome) ==
    CASE outcome = "ok" -> <<Msg("-STATUS_UPDATE-", "Encoding complete", 0)>>
      [] Handler(outcome) = 1 -> <<Msg("-ERROR-", "FFmpeg Error", 0)>>
      [] Handler(outcome) = 2 -> <<>>
      [] Handler(outcome) = 3 -> <<Msg("-ERROR-", "An unexpected error occurred during encoding", 0)>>
      [] OTHER -> <<>>

\* Lines 83-95: what the callback receives after subprocess.run.
Report(outcome) ==
    CASE outcome = "ok" -> <<Msg("-STATUS_UPDATE-", "Encoding complete", 0)>>
      [] Handler(outcome) = 1 -> <<Msg("-ERROR-", "FFmpeg Error", 0)>>
      [] Handler(outcome) = 2 -> <<Msg("-ERROR-", "FFmpeg executable not found", 0)>>
      [] Handler(outcome) = 3 -> <<Msg("-ERROR-", "An unexpected error occurred during encoding", 0)>>
      [] OTHER -> <<>>

NotCalled == [done |-> FALSE]

\* Lines 6-95: the result of one call: the command handed to subprocess.run
\* if any, the notifications sent through the callback, and whether an
\* exception left the function.
Encoded(c) ==
    IF c.codec_mode \notin DOMAIN codec_map
    THEN [done |-> TRUE, invoked |-> FALSE, command |-> <<>>, raised |-> FALSE,
          notifications |-> <<Msg("-ERROR-", "Internal error: Unknown codec mode", 0)>>]
    ELSE [done |-> TRUE, invoked |-> TRUE, command |-> Command(c),
          raised |-> (c.outcome # "ok" /\ Handler(c.outcome) = 0),
          notifications |-> Report(c.outcome)]

run_h26x_encoding ==
    /\ ret = NotCalled
    /\ ret' = Encoded(call)
    /\ UNCHANGED <<gui, app, stop_event, update_queue, pc, values, i,
                   total_files, engine, files, emitted, observed, log,
                   stopAt, call>>

InitEncoding ==
    /\ Idle
    /\ call \in EncoderCalls
    /\ ret = NotCalled

NextEncoding == run_h26x_encoding

\* One call of the encoder helper, over every key, flag and outcome.
SpecEncoding == InitEncoding /\ [][NextEncoding]_vars

(* ------------------------------------------------------- the depth values *)

Range(seq) == {seq[n] : n \in 1..Len(seq)}

\* Largest number of pixels of a depth sequence.
MaxPixels == 2

\* Depth values; the arithmetic on them is exact.
DepthValues == {0, 3, 5, 10}

DepthSequences ==
    UNION {[1..n -> DepthValues] : n \in 1..MaxPixels}

\* ndarray.max() and ndarray.min() over the whole sequence.
SeqMax(d) == CHOOSE x \in Range(d) : \A y \in Range(d) : y <= x

SeqMin(d) == CHOOSE x \in Range(d) : \A y \in Range(d) : x <= y

\* Lines 637-640: depths_vis.max() - depths_vis.
Invert(d) == [n \in 1..Len(d) |-> SeqMax(d) - d[n]]

\* An inversion done in place, on the array the writers share.
DepthsAliased(depths, depths_vis) == depths_vis

\* Line 634: the visualization works on a copy, so the array named depths
\* still holds the inference values after it.
DepthsAfterCopy(depths, depths_vis) == depths

\* Lines 670 and 673: the full scale of the raster.
FullScale(png_16bit) == IF png_16bit THEN 65535 ELSE 255

\* Lines 669-674 with d_min < d_max: rescale, then astype truncates.
Scale(x, d_min, d_max, full) == ((x - d_min) * full) \div (d_max - d_min)

\* Lines 666-674: the rasters the PNG writer can produce. With
\* d_min = d_max every pixel is 0/0, a NaN, and the conversion of a NaN to
\* an unsigned integer is undefined: either end of the range may come out.
PngImages(d, full) ==
    IF SeqMin(d) = SeqMax(d)
    THEN [1..Len(d) -> {0, full}]
    ELSE {[n \in 1..Len(d) |-> Scale(d[n], SeqMin(d), SeqMax(d), full)]}

DepthCalls ==
    [depths : DepthSequences, invert_metric : BOOLEAN, png_16bit : BOOLEAN]

\* Lines 633-678: what each writer of the save block receives.
write_outputs ==
    /\ ret = NotCalled
    /\ LET depths_vis == IF call.invert_metric THEN Invert(call.depths)
                                               ELSE call.depths
           depths == DepthsAfterCopy(call.depths, depths_vis)
       IN  \E png \in PngImages(depths, FullScale(call.png_16bit)) :
               ret' = [done |-> TRUE, again |-> FALSE, vis |-> depths_vis,
                       npz |-> depths, exr |-> depths, png |-> png,
                       nan |-> (SeqMin(depths) = SeqMax(depths))]
    /\ UNCHANGED <<gui, app, stop_event, update_queue, pc, values, i,
                   total_files, engine, files, emitted, observed, log,
                   stopAt, call>>

\* The inversion of lines 637-640 applied to its own output.
invert_again ==
    /\ ret # NotCalled
    /\ call.invert_metric
    /\ ~ret.again
    /\ ret' = [ret EXCEPT !.again = TRUE, !.vis = Invert(@)]
    /\ UNCHANGED <<gui, app, stop_event, update_queue, pc, values, i,
                   total_files, engine, files, emitted, observed, log,
                   stopAt, call>>

InitDepth ==
    /\ Idle
    /\ call \in DepthCalls
    /\ ret = NotCalled

NextDepth ==
    \/ write_outputs
    \/ invert_again

\* The writers of one file, over every depth sequence of at most MaxPixels
\* pixels and every setting of the two flags.
SpecDepth == InitDepth /\ [][NextDepth]_vars

(* ------------------------------------------------------------- histories *)

\* The messages of a history with a given key.
WithKey(seq, key) == SelectSeq(seq, LAMBDA m : m.key = key)

\* The numbers carried by the messages of a history with a given key.
Nums(seq, key) == LET ms == WithKey(seq, key) IN [n \in 1..Len(ms) |-> ms[n].num]

\* The error messages of a history that name file f.
ErrorsOf(seq, f) == SelectSeq(seq, LAMBDA m : m.key = "-ERROR-" /\ m.num = f)

\* The reasons of the done messages the worker has put.
Dones == LET ms == WithKey(emitted, "-THREAD_DONE-") IN [n \in 1..Len(ms) |-> ms[n].text]

\* The worker thread has ended, one way or another.
WorkerOver == pc \in {"returned", "stopped", "completed", "crashed"}

UpTo(n) == [k \in 1..n |-> k]

\* The artifacts the configuration asks for.
Wanted(v) == PlanSteps(v) \cap ArtifactSet

\* The save block of file f has run.
Saved(f) == f \in DOMAIN files /\ files[f].attempted # {}

(* ---------------------------------------------------------------- claims *)

\* C1: in a batch run without cancellation, whatever fails in a file, the
\* worker never ends abnormally, and a worker that has completed has
\* attempted every file of the batch, in order.
C1_ErrorIsolation ==
    ~stop_event =>
        /\ pc # "crashed"
        /\ pc = "completed" => log.reads = UpTo(total_files)

\* C2: a worker that has ended has put exactly one done message, and it is
\* the last message of its run.
C2_DoneExactlyOnce ==
    WorkerOver =>
        /\ Len(Dones) = 1
        /\ emitted[Len(emitted)].key = "-THREAD_DONE-"

\* C3: when Stop is pressed between file k and file k+1 (the worker is at
\* the top of the loop with k files behind it and one ahead), the run has
\* exactly k progress updates, the worker goes nowhere but to the stopped
\* end with a single done message 'Stopped' as its last message, nothing is
\* read, inferred, written or moved for file k+1 or a later file, and what
\* was written for files 1..k stays as it was.
C3_StopBetweenFiles ==
    (stopAt.phase = "boundary" /\ stopAt.i < total_files) =>
        LET k == stopAt.i
        IN  /\ Nums(emitted, "-PROGRESS_UPDATE-") = UpTo(k)
            /\ i = k
            /\ pc \in {"loop", "stopped"}
            /\ pc = "stopped" =>
                   /\ Dones = <<"Stopped">>
                   /\ emitted[Len(emitted)] = Msg("-THREAD_DONE-", "Stopped", 0)
            /\ pc = "loop" => Dones = <<>>
            /\ \A f \in Range(log.reads) \cup Range(log.infers) : f <= k
            /\ \A f \in (k + 1)..total_files : files[f] = NewFile
            /\ files = stopAt.files

C3_Witness ==
    /\ stopAt.phase = "boundary"
    /\ stopAt.i = 1
    /\ total_files = 2
    /\ pc = "stopped"
    /\ files[1].written # {}

\* C4 as stated: a cancellation requested while the worker is running its
\* batch, the last file in flight included, never ends in 'Completed'.
C4_StopNeverCompleted ==
    stopAt.phase \in {"setup", "boundary", "file"} => "Completed" \notin Range(Dones)

\* Stop was pressed with a stop check still ahead of the worker: before the
\* loop, between two files, or inside a file that is not the last.
StopBeforeACheck ==
    \/ stopAt.phase = "setup"
    \/ stopAt.phase = "boundary" /\ stopAt.i < total_files
    \/ stopAt.phase = "file" /\ stopAt.i + 1 < total_files

\* Stop was pressed with no stop check left: the last file in flight, or
\* the loop behind the worker.
StopAfterLastCheck ==
    \/ stopAt.phase = "boundary" /\ stopAt.i >= total_files
    \/ stopAt.phase = "file" /\ stopAt.i + 1 >= total_files
    \/ stopAt.phase = "end"

\* C4 (amended): a cancellation requested while a file of the batch has not
\* been started yet never ends in 'Completed', and a done message of that
\* run says 'Stopped'; a cancellation requested while the last file is in
\* flight, or later, never ends in 'Stopped'.
C4_StopBeforeACheck ==
    /\ StopBeforeACheck => Range(Dones) \subseteq {"Stopped"}
    /\ StopBeforeACheck /\ pc = "stopped" => Dones = <<"Stopped">>
    /\ StopAfterLastCheck => Range(Dones) \subseteq {"Completed"}

C4_Witness ==
    /\ stopAt.phase = "file"
    /\ stopAt.i = 0
    /\ total_files = 2
    /\ pc = "stopped"

\* C5: the progress updates of a run are 1, 2, ... one for every file whose
\* iteration has ended, whether its read, its inference, its writes or its
\* move failed or succeeded; a run that completes has sent total_files of
\* them; and a file that could not be read has exactly one error message.
C5_OneProgressPerFile ==
    /\ Nums(emitted, "-PROGRESS_UPDATE-") = UpTo(i)
    /\ pc = "completed" => i = total_files
    /\ \A f \in 1..i : files[f].failed = "read" => Len(ErrorsOf(emitted, f)) = 1

C5_Witness ==
    /\ pc = "completed"
    /\ ~stop_event
    /\ total_files = 2
    /\ files[1].failed = "read"
    /\ files[2].failed = "none"
    /\ Nums(emitted, "-PROGRESS_UPDATE-") = <<1, 2>>

\* C6: every artifact the configuration asks for is attempted for a file
\* whose save block has run, whichever of them fails.
C6_IndependentWrites ==
    \A f \in DOMAIN files : Saved(f) => Wanted(values) \subseteq files[f].attempted

\* C7: a file is in 'finished' only under resume and only after its read,
\* its inference and every configured write succeeded; a file that failed
\* at one of those steps, and a file not reached, is at its place.
C7_MoveOnlyAfterSuccess ==
    \A f \in DOMAIN files :
        /\ files[f].location = "finished" =>
               /\ values.resume
               /\ f \in Range(log.reads)
               /\ f \in Range(log.infers)
               /\ files[f].written = Wanted(values)
               /\ files[f].failed = "none"
               /\ ErrorsOf(emitted, f) = <<>>
        /\ files[f].failed \in {"read", "stack", "infer", "outdir"} \cup ArtifactSet =>
               files[f].location = "pending"
        /\ f \notin Range(log.reads) => files[f] = NewFile

C7_Witness ==
    /\ total_files = 2
    /\ values.resume
    /\ files[1].failed = "npz"
    /\ files[1].location = "pending"
    /\ files[2].location = "finished"

\* C8: when every output of a file is written and the relocation fails
\* (creating 'finished', or the move), the file gets a move error and no
\* output-saving error, and its outputs stay.
C8_RelocationFailureIsMoveError ==
    \A f \in DOMAIN files :
        files[f].failed \in {"mkfinished", "move"} =>
            /\ files[f].written = Wanted(values)
            /\ \A n \in 1..Len(ErrorsOf(emitted, f)) :
                   ErrorsOf(emitted, f)[n].text = ErrorText("move")
            /\ Len(ErrorsOf(emitted, f)) = 1

\* C9: what check_queue has taken, followed by what is still queued, is
\* what the worker put, in that order; so an observed progress update of a
\* file comes after the observed status message of that file, after every
\* error message the worker sent for that file, and after the set-max.
C9_OrderedDelivery ==
    /\ observed \o update_queue = emitted
    /\ \A p \in 1..Len(observed) :
           observed[p].key = "-PROGRESS_UPDATE-" =>
               /\ \E q \in 1..(p - 1) :
                      observed[q] = Msg("-STATUS_UPDATE-", "Processing file", observed[p].num)
               /\ \E q \in 1..(p - 1) : observed[q].key = "-SET_MAX-"
               /\ \A q \in 1..Len(emitted) :
                      (emitted[q].key = "-ERROR-" /\ emitted[q].num = observed[p].num) =>
                          (q < p /\ observed[q] = emitted[q])

C9_Witness ==
    \E p \in 1..Len(observed) :
        /\ observed[p] = Msg("-PROGRESS_UPDATE-", "", 2)
        /\ \E q \in 1..(p - 1) : observed[q].key = "-ERROR-" /\ observed[q].num = 2
        /\ update_queue # <<>>

\* C10: a run that has said 'Completed' has released the engine before,
\* the engine is built once in a run, and every inference runs on it.
C10_ReleaseBeforeCompleted ==
    /\ "Completed" \in Range(Dones) => engine = "released"
    /\ log.loads <= 1
    /\ pc \in {"read", "stack", "infer", "outdir", "save", "progress", "loop"} =>
           (engine = "loaded" /\ log.loads = 1)
    /\ log.infers # <<>> => log.loads = 1

C10_Witness ==
    /\ pc = "completed"
    /\ log.infers = <<1, 2>>
    /\ engine = "released"
    /\ log.loads = 1


\* The text is an integer greater than zero.
PositiveInt(t) == IsInt(t) /\ IntOf(t) > 0

\* C11: a worker has been launched only with an input size and a max
\* resolution that are positive integers, an input path and an output
\* directory.
C11_LaunchOnlyValidated ==
    pc # "idle" =>
        /\ PositiveInt(values.input_size)
        /\ PositiveInt(values.max_res)
        /\ values.path # ""
        /\ values.output_dir # ""


\* C12: for a folder the files to process are exactly its regular files
\* whose name ends in .mp4, .avi, .mov or .mkv in any case; when there is
\* none the worker sends one error and returns without loading the model
\* or touching a file; for a selected file they are that file alone.
C12_InputResolution ==
    pc \notin {"idle", "resolve"} =>
        /\ values.path = "dir" =>
               ret = call \cap {ClipLower, ClipUpper, ClipMixed, ClipMov, ClipMkv}
        /\ values.path = "file" => (ret = {SelectedFile} /\ total_files = 1)
        /\ ret # {} => (total_files = Cardinality(ret) /\ Len(files) = Cardinality(ret))
        /\ (values.path = "dir" /\ ret = {}) =>
               /\ pc = "returned"
               /\ Len(emitted) = 1
               /\ emitted[1].key = "-ERROR-"
               /\ log = NewLog
               /\ files = <<>>

C12_Witness ==
    /\ values.path = "dir"
    /\ call = {ClipUpper, VideoNamedDir}
    /\ ret = {ClipUpper}
    /\ total_files = 1
    /\ log.reads = <<1>>


\* C13: a worker that returned because the model could not be loaded has
\* put exactly one error message, no -SET_MAX- and no -PROGRESS_UPDATE-
\* message, has read no input file and written no output, and the
\* application is still running.
C13_LoadFailure ==
    (pc = "returned" /\ log.loads = 1) =>
        /\ Len(WithKey(emitted, "-ERROR-")) = 1
        /\ WithKey(emitted, "-SET_MAX-") = <<>>
        /\ WithKey(emitted, "-PROGRESS_UPDATE-") = <<>>
        /\ log.reads = <<>>
        /\ log.infers = <<>>
        /\ \A f \in DOMAIN files : files[f] = NewFile
        /\ engine = "none"
        /\ app = "running"

C13_Witness ==
    /\ pc = "returned"
    /\ log.loads = 1
    /\ total_files = MaxFiles
    /\ emitted[Len(emitted)].text = "Checkpoint file not found"


C15_AlwaysReports ==
    ret.done =>
        /\ ~ret.raised
        /\ Len(ret.notifications) = 1
        /\ IF ret.invoked /\ call.outcome = "ok"
           THEN ret.notifications[1].key = "-STATUS_UPDATE-"
           ELSE ret.notifications[1].key = "-ERROR-"

C15_Witness ==
    /\ ret.done
    /\ ret.invoked
    /\ call.outcome = "FileNotFoundError"
    /\ ret.notifications = <<Msg("-ERROR-", "FFmpeg executable not found", 0)>>


\* C16: whatever the invert flag, the npz and EXR writers receive the
\* inference values, the PNG writer a raster of the inference values, and
\* only the visualization receives max - value.
C16_InversionOnCopy ==
    ret.done =>
        /\ ret.npz = call.depths
        /\ ret.exr = call.depths
        /\ ret.png \in PngImages(call.depths, FullScale(call.png_16bit))
        /\ ~ret.again =>
               ret.vis = [n \in 1..Len(call.depths) |->
                             IF call.invert_metric
                             THEN SeqMax(call.depths) - call.depths[n]
                             ELSE call.depths[n]]

C16_Witness ==
    /\ ret.done
    /\ call.invert_metric
    /\ call.depths = <<3, 10>>
    /\ ret.vis = <<7, 0>>
    /\ ret.npz = <<3, 10>>
    /\ ret.exr = <<3, 10>>
    /\ ret.png = <<0, FullScale(call.png_16bit)>>


\* C17: when the window is gone, every error message the worker put has
\* been taken by check_queue and shown.
C17_NoErrorSwallowed ==
    app = "destroyed" =>
        Len(WithKey(observed, "-ERROR-")) = Len(WithKey(emitted, "-ERROR-"))

\* C18: the PNG raster is defined for every depth sequence, the pixels at
\* the sequence minimum are 0, those at the maximum are full scale, and
\* with minimum 0 and maximum 10 a depth of 5 gives 127 in 8 bits and
\* 32767 in 16 bits.
C18_Normalisation ==
    ret.done =>
        /\ ~ret.nan
        /\ \A n \in 1..Len(call.depths) :
               /\ call.depths[n] = SeqMin(call.depths) => ret.png[n] = 0
               /\ call.depths[n] = SeqMax(call.depths) =>
                      ret.png[n] = (IF call.png_16bit THEN 65535 ELSE 255)
               /\ (SeqMin(call.depths) = 0 /\ SeqMax(call.depths) = 10
                       /\ call.depths[n] = 5) =>
                      ret.png[n] = (IF call.png_16bit THEN 32767 ELSE 127)

C20_BackToIdle ==
    (WorkerOver /\ update_queue = <<>> /\ app = "running") =>
        /\ gui.btn_start = "normal"
        /\ gui.widgets = "normal"
        /\ gui.btn_stop = "disabled"


\* C21: Process can be pressed only when no worker is running, a worker
\* sees the stop flag set only if Stop was pressed during its own batch,
\* and a batch ends 'Stopped' only for such a press.
C21_SingleWorker ==
    /\ (app = "running" /\ gui.btn_start = "normal") => ~ThreadAlive
    /\ (ThreadAlive /\ stopAt = NoStop) => ~stop_event
    /\ pc = "stopped" => stopAt # NoStop

C21_Witness ==
    /\ ret.earlier_stop
    /\ pc = "completed"
    /\ stopAt = NoStop
    /\ log.reads = UpTo(total_files)
    /\ total_files = MaxFiles


\* C22: once the bound of the current batch has been set, the progress
\* bar shows at most the number of progress updates the worker has put,
\* and at most that bound.
C22_ProgressNeverOverstates ==
    WithKey(observed, "-SET_MAX-") # <<>> =>
        /\ gui.bar_value <= Len(WithKey(emitted, "-PROGRESS_UPDATE-"))
        /\ gui.bar_value <= gui.bar_max

====
